---- MODULE Spec2Model ----
(***************************************************************************)
(* Weather service: the Kafka ingestion consumer (ConsumeClaim), the       *)
(* Postgres record store (WeatherStorage), the Redis cache (WeatherCache)  *)
(* and the HTTP serving layer (WeatherHandler).                            *)
(***************************************************************************)
EXTENDS Integers, Sequences, FiniteSets, TLC

VARIABLES
    store,      \* table weather: city (primary key) -> row, or NoRow
    clock,      \* time.Now() as seen by Save: strictly increasing write instants
    cache,      \* Redis: key -> entry [val, exp], or NoEntry
    now,        \* coarse wall clock in TTL ticks
    req,        \* HTTP requests in flight: each one's handler position and locals
    resp,       \* the HTTP response the last step sent (NoResp when it sent none),
                \* with its request's calls and surroundings
    doneStamp,  \* per city: updated_at of the latest UpdateWeather that answered 200
                \* with both invalidations carried out
    scn,        \* per city: how far an undisturbed write, read, read sequence has got
    log,        \* per partition: the messages published to it (offset = index - 1)
    pos,        \* per partition: offset of the next message claim.Messages() yields
    marked,     \* per partition: offset marked in the session (next to consume)
    committed,  \* per partition: offset committed to the broker
    saved,      \* per partition: offsets whose message a successful Save has written
    seen,       \* per partition: offset -> number of deliveries to ConsumeClaim
    acked,      \* per partition: offsets ConsumeClaim passed to MarkMessage
    handling,   \* per partition: offset of the message ConsumeClaim is saving, or Idle
    cancelled,  \* ctx of the aggregator's main has been cancelled
    loop,       \* the consume goroutine: inside Consume, after its return, or returned
    consumeErr, \* whether the latest return of Consume carried an error
    main        \* the aggregator's main: waiting for a signal, in wg.Wait, or closed

vars == <<store, clock, cache, now, req, resp, doneStamp, scn,
          log, pos, marked, committed, saved, seen, acked,
          handling, cancelled, loop, consumeErr, main>>

serveVars == <<cache, now, req, resp, doneStamp, scn>>
ingestVars == <<log, pos, marked, committed, saved, seen, acked,
                handling, cancelled, loop, consumeErr, main>>

----------------------------------------------------------------------------
(* Bounds *)

MaxReq == 2
MaxTime == 1
TTLTicks == 1
MaxWrites == 2
MaxLog == 3
MaxDeliveries == 2

Reqs == 1..MaxReq
\* the topic's partitions, and the one a single claim reads
Partitions == {0, 1}
OnePartition == {0}

----------------------------------------------------------------------------
(* Values *)

PathCities == {"Paris"}
CityNames == {"Paris", "paris", "moscow"}

ToLower(s) == IF s = "Paris" THEN "paris" ELSE s

NoRow == [none |-> TRUE]
NoEntry == [none |-> TRUE]
NoData == [none |-> TRUE]

WeatherData(c, t, cond, prov, ts) ==
    [city |-> c, temp |-> t, condition |-> cond, provider |-> prov, timestamp |-> ts]

\* json.Marshal / json.Unmarshal of model.WeatherData: the payload is the
\* sequence of the five field values; anything else does not parse.
Marshal(d) == <<d.city, d.temp, d.condition, d.provider, d.timestamp>>
ValidJSON(b) == Len(b) = 5
Unmarshal(b) == WeatherData(b[1], b[2], b[3], b[4], b[5])

BrokenPayload == <<"{">>

Bodies == { Marshal(WeatherData("ignored", 18, "Clear", "X", 0)),
            Marshal(WeatherData("ignored", 19, "Rain", "Y", 0)),
            BrokenPayload }

CityKey(city) == "weather:city:" \o city
AllCitiesKey == "weather:cities:all"
CacheKeys == {CityKey(ToLower(c)) : c \in PathCities} \cup {AllCitiesKey}

----------------------------------------------------------------------------
(* Record store *)

\* INSERT ... ON CONFLICT (city) DO UPDATE SET temp, condition, provider, updated_at
SaveRow(st, data, t) ==
    IF st[data.city] = NoRow
    THEN [st EXCEPT ![data.city] =
              [city |-> data.city, temp |-> data.temp, condition |-> data.condition,
               provider |-> data.provider, updated_at |-> t]]
    ELSE [st EXCEPT ![data.city] =
              [@ EXCEPT !.temp = data.temp, !.condition = data.condition,
                        !.provider = data.provider, !.updated_at = t]]

\* the aggregator's Save, src/unnamed/part_001 52-75:
\* INSERT ... ON CONFLICT (city) DO UPDATE SET temp, condition, updated_at
SaveRowAggregator(st, data, t) ==
    IF st[data.city] = NoRow
    THEN [st EXCEPT ![data.city] =
              [city |-> data.city, temp |-> data.temp, condition |-> data.condition,
               provider |-> data.provider, updated_at |-> t]]
    ELSE [st EXCEPT ![data.city] =
              [@ EXCEPT !.temp = data.temp, !.condition = data.condition,
                        !.updated_at = t]]

\* faulty variant: sql.ErrNoRows is not told apart, the zero value is returned
GetByCityIgnoringNoRows(st, city) ==
    IF st[city] = NoRow THEN WeatherData("", 0, "", "", 0)
    ELSE WeatherData(st[city].city, st[city].temp, st[city].condition,
                     st[city].provider, st[city].updated_at)

\* SELECT ... WHERE city = $1, scanned into a WeatherData
GetByCity(st, city) ==
    IF st[city] = NoRow THEN NoData
    ELSE WeatherData(st[city].city, st[city].temp, st[city].condition,
                     st[city].provider, st[city].updated_at)

\* byte order of the city names, as ORDER BY city compares them
CityRank(c) == CASE c = "Paris" -> 1 [] c = "moscow" -> 2 [] c = "paris" -> 3

RECURSIVE SortedSeq(_)
SortedSeq(S) ==
    IF S = {} THEN <<>>
    ELSE LET m == CHOOSE x \in S : \A y \in S : CityRank(x) <= CityRank(y)
         IN <<m>> \o SortedSeq(S \ {m})

\* SELECT city FROM weather ORDER BY city
GetAllCitiesRows(st) == SortedSeq({c \in CityNames : st[c] # NoRow})

----------------------------------------------------------------------------
(* Cache *)

\* faulty variant: the entry outlives the TTL by one tick
CacheSetLate(ch, key, data, t) ==
    [ch EXCEPT ![key] = [val |-> Marshal(data), exp |-> t + TTLTicks + 1]]

\* WeatherCache.Set: SET key bytes EX ttl
CacheSet(ch, key, data, t) ==
    [ch EXCEPT ![key] = [val |-> Marshal(data), exp |-> t + TTLTicks]]

\* WeatherCache.Get: nil on redis.Nil, the decoded value otherwise
CacheGet(ch, key) ==
    IF ch[key] = NoEntry THEN NoData ELSE Unmarshal(ch[key].val)

\* faulty variant: the key is not removed
CacheDeleteKeeps(ch, key) == ch

\* WeatherCache.Delete: DEL key
CacheDelete(ch, key) == [ch EXCEPT ![key] = NoEntry]

\* strings.Join(cities, ","): the joined string as its pieces
RECURSIVE Join(_)
Join(cities) ==
    IF Len(cities) = 0 THEN <<>>
    ELSE IF Len(cities) = 1 THEN <<cities[1]>>
    ELSE <<cities[1], ",">> \o Join(Tail(cities))

\* strings.Split(s, ","): an empty string splits into one empty string
RECURSIVE SplitFrom(_, _)
SplitFrom(s, cur) ==
    IF Len(s) = 0 THEN <<cur>>
    ELSE IF s[1] = "," THEN <<cur>> \o SplitFrom(Tail(s), "")
    ELSE SplitFrom(Tail(s), cur \o s[1])
Split(s) == SplitFrom(s, "")

----------------------------------------------------------------------------
(* Serving layer: each slot runs one request at a time, step by step; resp *)
(* is the latest response sent, with what is known about its request       *)

NewReq ==
    [kind |-> "none", pc |-> "idle", city |-> "", data |-> NoData, cities |-> <<>>,
     ops |-> {}, failed |-> {}, overlap |-> {}, floor |-> 0, stamp |-> 0,
     reads |-> 0]

NoScn == [phase |-> "none", want |-> <<>>]

NoResp ==
    [kind |-> "none", city |-> "", status |-> 0, msg |-> "", cached |-> FALSE,
     body |-> NoData, list |-> <<>>, total |-> 0, data |-> NoData,
     cities |-> <<>>, reads |-> 0,
     ops |-> {}, failed |-> {}, overlap |-> {}, floor |-> 0,
     stamp |-> 0, was |-> NoScn, left |-> {}, hasRow |-> FALSE, rowStamp |-> 0]

InFlight(r) == req[r].pc # "idle"

\* the cache keys a request of this kind for this city reads or writes
KeysOf(kind, city) ==
    CASE kind = "get" -> {CityKey(city)}
      [] kind = "update" -> {CityKey(city), AllCitiesKey}
      [] kind = "all" -> {AllCitiesKey}
      [] OTHER -> {}

Conflicts(r, kind, city) ==
    InFlight(r) /\ KeysOf(req[r].kind, req[r].city) \cap KeysOf(kind, city) # {}

\* readers populate the cache, writers invalidate it
Role(kind) == IF kind = "update" THEN "writer" ELSE "reader"

\* the roles of the requests in flight on the keys of an arriving request
Met(kind, city) == {Role(req[o].kind) : o \in {o \in Reqs : Conflicts(o, kind, city)}}

\* the requests in flight, once a request of this kind has arrived
Joined(kind, city) ==
    [q \in Reqs |-> IF Conflicts(q, kind, city)
                    THEN [req[q] EXCEPT !.overlap = @ \cup {Role(kind)}]
                    ELSE req[q]]

CanStart(r) == req[r].pc = "idle" /\ \A q \in Reqs : q < r => req[q].pc # "idle"

\* a call to the store or the cache, and whether it returned an error;
\* reads counts the calls that query the weather table
Op(rec, name, ok) ==
    [rec EXCEPT !.ops = @ \cup {name}, !.failed = IF ok THEN @ ELSE @ \cup {name},
                !.reads = IF name \in {"store.GetByCity", "store.GetAllCities"}
                          THEN @ + 1 ELSE @]

\* sendJSON / sendError, with the state the response leaves behind
Reply(rec, status, msg, cached, body, list, ch, st) ==
    [kind |-> rec.kind, city |-> rec.city, status |-> status, msg |-> msg,
     cached |-> cached, body |-> body, list |-> list, total |-> Len(list),
     data |-> rec.data, cities |-> rec.cities, reads |-> rec.reads,
     ops |-> rec.ops, failed |-> rec.failed,
     overlap |-> rec.overlap, floor |-> rec.floor,
     stamp |-> rec.stamp,
     was |-> IF rec.city \in DOMAIN scn THEN scn[rec.city] ELSE NoScn,
     left |-> {k \in KeysOf(rec.kind, rec.city) : ch[k] # NoEntry},
     hasRow |-> rec.kind # "all" /\ st[rec.city] # NoRow,
     rowStamp |-> IF rec.kind # "all" /\ st[rec.city] # NoRow
                  THEN st[rec.city].updated_at ELSE 0]

Max(a, b) == IF a >= b THEN a ELSE b

\* the fields of a WeatherData that a write chooses
Values(d) == <<d.temp, d.condition, d.provider>>

\* a request that met no other request on its keys and saw no call fail
Undisturbed(rec) == rec.overlap = {} /\ rec.failed = {}

\* the write, read, read sequence of a city once a GetWeather has answered
ScnAfterGet(s, rp) ==
    IF ~ Undisturbed(rp) \/ rp.status # 200 THEN NoScn
    ELSE IF s.phase = "written" THEN [s EXCEPT !.phase = "read1"]
    ELSE IF s.phase = "read1" THEN [s EXCEPT !.phase = "read2"]
    ELSE s

\* ... and once an UpdateWeather has answered 200
ScnAfterUpdate(rp) ==
    IF Undisturbed(rp) THEN [phase |-> "written", want |-> Values(rp.data)] ELSE NoScn

----------------------------------------------------------------------------
(* GetWeather, weather.go 32-87 *)

\* lines 46-61: the answer on a cache hit
GetWeatherHit(rec, cachedData) ==
    Reply(rec, 200, "", TRUE, cachedData, <<>>, cache, store)

\* lines 34-61: cache lookup; a hit answers at once, a miss or an error goes on
GetWeather(r, path) ==
    /\ CanStart(r)
    /\ LET city == ToLower(path)
           rec0 == [NewReq EXCEPT !.kind = "get", !.city = city,
                                  !.floor = doneStamp[city],
                                  !.overlap = Met("get", city)]
       IN \E ok \in BOOLEAN :
            LET rec1 == Op(rec0, "cache.Get", ok)
                cachedData == IF ok THEN CacheGet(cache, CityKey(city)) ELSE NoData
            IN IF cachedData # NoData
               THEN /\ resp' = GetWeatherHit(rec1, cachedData)
                    /\ req' = Joined("get", city)
                    /\ scn' = [scn EXCEPT ![city] = ScnAfterGet(@, resp')]
               ELSE /\ req' = [Joined("get", city) EXCEPT ![r] = [rec1 EXCEPT !.pc = "storeGet"]]
                    /\ resp' = NoResp
                    /\ UNCHANGED scn
    /\ UNCHANGED <<store, clock, cache, now, doneStamp, ingestVars>>

\* lines 65-69: the answer when the store read returns an error
GetWeatherStoreError(rec, msg) ==
    Reply(rec, 404, msg, FALSE, NoData, <<>>, cache, store)

\* lines 64-69: the store read
GetWeatherStore(r) ==
    /\ req[r].kind = "get" /\ req[r].pc = "storeGet"
    /\ \E ok \in BOOLEAN :
         LET rec1 == Op(req[r], "store.GetByCity", ok)
             dbData == IF ok THEN GetByCity(store, rec1.city) ELSE NoData
         IN IF ok /\ dbData # NoData
            THEN /\ req' = [req EXCEPT ![r] = [rec1 EXCEPT !.pc = "cacheSet", !.data = dbData]]
                 /\ resp' = NoResp
                 /\ UNCHANGED scn
            ELSE /\ resp' = GetWeatherStoreError(rec1, IF ok THEN "city not found"
                                                       ELSE "query failed")
                 /\ req' = [req EXCEPT ![r] = NewReq]
                 /\ scn' = [scn EXCEPT ![rec1.city] = ScnAfterGet(@, resp')]
    /\ UNCHANGED <<store, clock, cache, now, doneStamp, ingestVars>>

\* faulty variant: a failed cache Set is answered with a 500
GetWeatherPopulateSurfacesError(r) ==
    /\ req[r].kind = "get" /\ req[r].pc = "cacheSet"
    /\ \E ok \in BOOLEAN :
         LET rec1 == Op(req[r], "cache.Set", ok)
         IN /\ cache' = IF ok THEN CacheSet(cache, CityKey(rec1.city), rec1.data, now)
                        ELSE cache
            /\ resp' = IF ok THEN Reply(rec1, 200, "", FALSE, rec1.data, <<>>, cache', store)
                       ELSE Reply(rec1, 500, "cache failed", FALSE, NoData, <<>>, cache', store)
            /\ req' = [req EXCEPT ![r] = NewReq]
            /\ scn' = [scn EXCEPT ![rec1.city] = ScnAfterGet(@, resp')]
    /\ UNCHANGED <<store, clock, now, doneStamp, ingestVars>>

\* lines 72-81: best-effort populate, then the store-sourced answer
GetWeatherPopulate(r) ==
    /\ req[r].kind = "get" /\ req[r].pc = "cacheSet"
    /\ \E ok \in BOOLEAN :
         LET rec1 == Op(req[r], "cache.Set", ok)
         IN /\ cache' = IF ok THEN CacheSet(cache, CityKey(rec1.city), rec1.data, now)
                        ELSE cache
            /\ resp' = Reply(rec1, 200, "", FALSE, rec1.data, <<>>, cache', store)
            /\ req' = [req EXCEPT ![r] = NewReq]
            /\ scn' = [scn EXCEPT ![rec1.city] = ScnAfterGet(@, resp')]
    /\ UNCHANGED <<store, clock, now, doneStamp, ingestVars>>

----------------------------------------------------------------------------
(* UpdateWeather, weather.go 145-179 *)

\* faulty variant: a body that does not decode is answered like a success
UpdateBadBodyAnswersOk(rec) ==
    Reply(rec, 200, "ok", FALSE, NoData, <<>>, cache, store)

\* lines 149-152: the answer to a body that does not decode
UpdateBadBody(rec) ==
    Reply(rec, 400, "bad json", FALSE, NoData, <<>>, cache, store)

\* faulty variant: the failure is answered like a success
UpdateSaveFailedAnswersOk(rec) ==
    Reply(rec, 200, "ok", FALSE, NoData, <<>>, cache, store)

\* lines 160-164: the answer once Save has failed
UpdateSaveFailed(rec) ==
    Reply(rec, 500, "save failed", FALSE, NoData, <<>>, cache, store)

\* lines 146-164: decode, overwrite city and timestamp, Save
UpdateWeather(r, path, payload) ==
    /\ CanStart(r)
    /\ LET city == ToLower(path)
           rec0 == [NewReq EXCEPT !.kind = "update", !.city = city,
                                  !.overlap = Met("update", city)]
       IN IF ~ ValidJSON(payload)
          THEN /\ resp' = UpdateBadBody(rec0)
               /\ req' = Joined("update", city)
               /\ UNCHANGED <<store, clock, scn>>
          ELSE \E ok \in BOOLEAN :
                 LET data == [Unmarshal(payload) EXCEPT !.city = city, !.timestamp = clock]
                     rec1 == Op([rec0 EXCEPT !.data = data], "store.Save", ok)
                 IN IF ok
                    THEN /\ clock < MaxWrites
                         /\ store' = SaveRow(store, data, clock + 1)
                         /\ clock' = clock + 1
                         /\ scn' = [scn EXCEPT ![city] = NoScn]
                         /\ req' = [Joined("update", city) EXCEPT ![r] =
                                       [rec1 EXCEPT !.pc = "delCity", !.stamp = clock + 1]]
                         /\ resp' = NoResp
                    ELSE /\ resp' = UpdateSaveFailed(rec1)
                         /\ req' = Joined("update", city)
                         /\ UNCHANGED <<store, clock, scn>>
    /\ UNCHANGED <<cache, now, doneStamp, ingestVars>>

\* faulty variant: the written record is put under the city's key
UpdateDeleteCityWritesThrough(r) ==
    /\ req[r].kind = "update" /\ req[r].pc = "delCity"
    /\ \E ok \in BOOLEAN :
         /\ cache' = IF ok THEN CacheSet(cache, CityKey(req[r].city), req[r].data, now)
                     ELSE cache
         /\ req' = [req EXCEPT ![r] =
                       [Op(@, "cache.Delete:city", ok) EXCEPT !.pc = "delAll"]]
    /\ resp' = NoResp
    /\ UNCHANGED <<store, clock, now, doneStamp, scn, ingestVars>>

\* lines 167-169: invalidate the city's key, errors only logged
UpdateDeleteCity(r) ==
    /\ req[r].kind = "update" /\ req[r].pc = "delCity"
    /\ \E ok \in BOOLEAN :
         /\ cache' = IF ok THEN CacheDelete(cache, CityKey(req[r].city)) ELSE cache
         /\ req' = [req EXCEPT ![r] =
                       [Op(@, "cache.Delete:city", ok) EXCEPT !.pc = "delAll"]]
    /\ resp' = NoResp
    /\ UNCHANGED <<store, clock, now, doneStamp, scn, ingestVars>>

\* faulty variant: the listing's key is not invalidated
UpdateDeleteAllSkipped(r) ==
    /\ req[r].kind = "update" /\ req[r].pc = "delAll"
    /\ resp' = Reply(req[r], 200, "ok", FALSE, NoData, <<>>, cache, store)
    /\ req' = [req EXCEPT ![r] = NewReq]
    /\ doneStamp' = [doneStamp EXCEPT ![req[r].city] =
                        IF req[r].failed = {} THEN Max(@, req[r].stamp) ELSE @]
    /\ scn' = [scn EXCEPT ![req[r].city] = ScnAfterUpdate(resp')]
    /\ UNCHANGED <<store, clock, cache, now, ingestVars>>

\* lines 172-176: invalidate the listing's key, errors only logged, answer 200
UpdateDeleteAll(r) ==
    /\ req[r].kind = "update" /\ req[r].pc = "delAll"
    /\ \E ok \in BOOLEAN :
         LET rec == Op(req[r], "cache.Delete:all", ok)
         IN /\ cache' = IF ok THEN CacheDelete(cache, AllCitiesKey) ELSE cache
            /\ resp' = Reply(rec, 200, "ok", FALSE, NoData, <<>>, cache', store)
            /\ req' = [req EXCEPT ![r] = NewReq]
            /\ doneStamp' = [doneStamp EXCEPT ![rec.city] =
                                IF rec.failed = {} THEN Max(@, rec.stamp) ELSE @]
            /\ scn' = [scn EXCEPT ![rec.city] = ScnAfterUpdate(resp')]
    /\ UNCHANGED <<store, clock, now, ingestVars>>

----------------------------------------------------------------------------
(* GetAllCities, weather.go 90-142 *)

\* lines 124-126: the listing carried in the City field of a WeatherData
ListingData(cities) == WeatherData(Join(cities), 0, "", "", 0)

\* lines 95-113: cache lookup; a hit answers with the split string
GetAllCities(r) ==
    /\ CanStart(r)
    /\ \E ok \in BOOLEAN :
         LET rec1 == Op([NewReq EXCEPT !.kind = "all", !.overlap = Met("all", "")],
                        "cache.Get", ok)
             cached == IF ok THEN CacheGet(cache, AllCitiesKey) ELSE NoData
         IN IF cached # NoData
            THEN /\ resp' = Reply(rec1, 200, "", TRUE, NoData, Split(cached.city),
                                  cache, store)
                 /\ req' = Joined("all", "")
            ELSE /\ req' = [Joined("all", "") EXCEPT ![r] = [rec1 EXCEPT !.pc = "storeList"]]
                 /\ resp' = NoResp
    /\ UNCHANGED <<store, clock, cache, now, doneStamp, scn, ingestVars>>

\* lines 116-121: the store listing
GetAllCitiesStore(r) ==
    /\ req[r].kind = "all" /\ req[r].pc = "storeList"
    /\ \E ok \in BOOLEAN :
         LET rec1 == Op(req[r], "store.GetAllCities", ok)
         IN IF ok
            THEN /\ req' = [req EXCEPT ![r] =
                              [rec1 EXCEPT !.pc = "allSet",
                                           !.cities = GetAllCitiesRows(store)]]
                 /\ resp' = NoResp
            ELSE /\ resp' = Reply(rec1, 500, "", FALSE, NoData, <<>>, cache, store)
                 /\ req' = [req EXCEPT ![r] = NewReq]
    /\ UNCHANGED <<store, clock, cache, now, doneStamp, scn, ingestVars>>

\* lines 124-137: best-effort populate, then the store-sourced answer
GetAllCitiesPopulate(r) ==
    /\ req[r].kind = "all" /\ req[r].pc = "allSet"
    /\ \E ok \in BOOLEAN :
         LET rec1 == Op(req[r], "cache.Set", ok)
         IN /\ cache' = IF ok THEN CacheSet(cache, AllCitiesKey, ListingData(rec1.cities), now)
                        ELSE cache
            /\ resp' = Reply(rec1, 200, "", FALSE, NoData, rec1.cities, cache', store)
            /\ req' = [req EXCEPT ![r] = NewReq]
    /\ UNCHANGED <<store, clock, now, doneStamp, scn, ingestVars>>

----------------------------------------------------------------------------
(* HealthCheck, weather.go 182-214 *)

\* the key probed in Redis
HealthKey == "health:check"

\* WeatherCache.Exists: whether the key is present
CacheExists(ch, key) == key \in DOMAIN ch /\ ch[key] # NoEntry

\* lines 185-207: the health map
Health(dbOk, redisOk) ==
    [status |-> IF dbOk /\ redisOk THEN "ok" ELSE "degraded",
     database |-> IF dbOk THEN "healthy" ELSE "unhealthy",
     redis |-> IF redisOk THEN "healthy" ELSE "unhealthy"]

\* faulty variant: only the database decides the status code
HealthStatusIgnoresRedis(health) == IF health.database = "unhealthy" THEN 503 ELSE 200

\* lines 209-212: 503 when degraded, 200 otherwise
HealthStatus(health) == IF health.status = "degraded" THEN 503 ELSE 200

\* store.Ping, then cache.Exists on the health key with its result dropped,
\* then the answer
HealthCheck(dbOk, redisOk) ==
    /\ LET probed == IF redisOk THEN CacheExists(cache, HealthKey) ELSE FALSE
           rec == Op(Op([NewReq EXCEPT !.kind = "health"], "store.Ping", dbOk),
                     "cache.Exists", redisOk)
       IN resp' = [NoResp EXCEPT !.kind = "health",
                                 !.status = HealthStatus(Health(dbOk, redisOk)),
                                 !.body = Health(dbOk, redisOk),
                                 !.ops = rec.ops, !.failed = rec.failed]
    /\ UNCHANGED <<store, clock, cache, now, req, doneStamp, scn, ingestVars>>

----------------------------------------------------------------------------
(* Time: the entries' TTL, redis.go 54 *)

Expired(ch, key, t) == ch[key] # NoEntry /\ ch[key].exp <= t

Tick ==
    /\ now < MaxTime
    /\ now' = now + 1
    /\ cache' = [k \in CacheKeys |-> IF Expired(cache, k, now + 1) THEN NoEntry ELSE cache[k]]
    /\ scn' = [c \in DOMAIN scn |->
                 IF Expired(cache, CityKey(c), now + 1) /\ scn[c].phase \in {"read1", "read2"}
                 THEN NoScn ELSE scn[c]]
    /\ resp' = NoResp
    /\ UNCHANGED <<store, clock, req, doneStamp, ingestVars>>

----------------------------------------------------------------------------
(* Ingestion consumer, ConsumerHandler.ConsumeClaim and the consume loop *)

\* what the producers put on the topic: readings as the collector marshals
\* them, a reading of another provider, and a payload that is not JSON
Payloads == { Marshal(WeatherData("Paris", 18, "Cloudy", "OpenWeatherMap", 1)),
              Marshal(WeatherData("moscow", 5, "Cloudy", "OpenWeatherMap", 2)),
              Marshal(WeatherData("Paris", 21, "Rain", "WeatherAPI", 0)),
              BrokenPayload }

\* readings of a producer that publishes the city in lower case
LowerCasePayloads == { Marshal(WeatherData("paris", 7, "Snow", "OpenWeatherMap", 3)) }

\* the readings of Paris among them
ParisPayloads == {b \in Payloads : ValidJSON(b) /\ Unmarshal(b).city = "Paris"}

Offsets(p) == 0 .. (Len(log[p]) - 1)
MessageAt(p, k) == log[p][k + 1]

\* collector: producer.SendMessage appends to the partition
Publish(p, payload) ==
    /\ Len(log[p]) < MaxLog
    /\ log' = [log EXCEPT ![p] = Append(@, payload)]
    /\ UNCHANGED <<store, clock, serveVars, pos, marked, committed, saved, seen, acked,
                   handling, cancelled, loop, consumeErr, main>>

\* sess.MarkMessage(msg, ""): the session's offset becomes msg.Offset + 1
\* unless it is already beyond it
MarkMessage(m, offset) == IF offset + 1 > m THEN offset + 1 ELSE m

\* no message of the partition is between its receipt and its outcome
Idle == -1

\* lines 104-110: the loop over claim.Messages() receives the next message
\* and decodes it; a payload that does not decode is logged and skipped
ConsumeClaim(p) ==
    /\ loop = "consume"
    /\ handling[p] = Idle
    /\ pos[p] < Len(log[p])
    /\ LET offset == pos[p]
       IN /\ pos' = [pos EXCEPT ![p] = offset + 1]
          /\ seen' = [seen EXCEPT ![p][offset] = IF @ < MaxDeliveries THEN @ + 1 ELSE @]
          /\ handling' = [handling EXCEPT ![p] =
                             IF ValidJSON(MessageAt(p, offset)) THEN offset ELSE Idle]
    /\ UNCHANGED <<store, clock, serveVars, log, marked, committed, saved, acked,
                   cancelled, loop, consumeErr, main>>

\* faulty variant: a saved reading also removes the city's cache entry
ConsumeClaimSaveInvalidates(p) ==
    /\ handling[p] # Idle
    /\ clock < MaxWrites
    /\ LET data == Unmarshal(MessageAt(p, handling[p]))
       IN /\ store' = SaveRowAggregator(store, data, clock + 1)
          /\ cache' = [k \in CacheKeys |->
                          IF k = CityKey(data.city) THEN NoEntry ELSE cache[k]]
    /\ clock' = clock + 1
    /\ saved' = [saved EXCEPT ![p] = @ \cup {handling[p]}]
    /\ marked' = [marked EXCEPT ![p] = MarkMessage(@, handling[p])]
    /\ acked' = [acked EXCEPT ![p] = @ \cup {handling[p]}]
    /\ handling' = [handling EXCEPT ![p] = Idle]
    /\ UNCHANGED <<now, req, resp, doneStamp, scn, log, pos, committed, seen,
                   cancelled, loop, consumeErr, main>>

\* faulty variant: the message is marked whether or not Save succeeded
ConsumeClaimSaveMarksAlways(p) ==
    /\ handling[p] # Idle
    /\ LET offset == handling[p]
       IN /\ \E ok \in BOOLEAN :
               IF ok
               THEN /\ clock < MaxWrites
                    /\ store' = SaveRowAggregator(store, Unmarshal(MessageAt(p, offset)),
                                                  clock + 1)
                    /\ clock' = clock + 1
                    /\ saved' = [saved EXCEPT ![p] = @ \cup {offset}]
               ELSE UNCHANGED <<store, clock, saved>>
          /\ marked' = [marked EXCEPT ![p] = MarkMessage(@, offset)]
          /\ acked' = [acked EXCEPT ![p] = @ \cup {offset}]
    /\ handling' = [handling EXCEPT ![p] = Idle]
    /\ UNCHANGED <<serveVars, log, pos, committed, seen, cancelled, loop, consumeErr, main>>

\* lines 113-124: Save with the session's context; on success MarkMessage,
\* on failure the error is logged and the loop goes on to the next message
ConsumeClaimSave(p) ==
    /\ handling[p] # Idle
    /\ LET offset == handling[p]
       IN \E ok \in BOOLEAN :
            IF ok
            THEN /\ clock < MaxWrites
                 /\ store' = SaveRowAggregator(store, Unmarshal(MessageAt(p, offset)),
                                               clock + 1)
                 /\ clock' = clock + 1
                 /\ saved' = [saved EXCEPT ![p] = @ \cup {offset}]
                 /\ marked' = [marked EXCEPT ![p] = MarkMessage(@, offset)]
                 /\ acked' = [acked EXCEPT ![p] = @ \cup {offset}]
            ELSE UNCHANGED <<store, clock, marked, saved, acked>>
    /\ handling' = [handling EXCEPT ![p] = Idle]
    /\ UNCHANGED <<serveVars, log, pos, committed, seen, cancelled, loop, consumeErr, main>>

\* the consumer group's periodic offset commit
AutoCommit(p) ==
    /\ main # "closed"
    /\ committed[p] # marked[p]
    /\ committed' = [committed EXCEPT ![p] = marked[p]]
    /\ UNCHANGED <<store, clock, serveVars, log, pos, marked, saved, seen, acked,
                   handling, cancelled, loop, consumeErr, main>>

\* line 74: consumer.Consume returns, with an error or without, on a
\* rebalance, a broker error or the cancellation of ctx; it returns once
\* every ConsumeClaim of the session has returned, and the ended session
\* flushes its marks
ConsumeReturns(err) ==
    /\ loop = "consume"
    /\ \A p \in Partitions : handling[p] = Idle
    /\ loop' = "returned"
    /\ consumeErr' = err
    /\ committed' = marked
    /\ UNCHANGED <<store, clock, serveVars, log, pos, marked, saved, seen, acked,
                   handling, cancelled, main>>

\* faulty variant: the loop gives up when Consume returned an error
LoopCheckStopsOnError ==
    /\ loop = "returned"
    /\ IF cancelled \/ consumeErr
       THEN loop' = "exited" /\ UNCHANGED pos
       ELSE loop' = "consume" /\ pos' = committed
    /\ UNCHANGED <<store, clock, serveVars, log, marked, committed, saved, seen, acked,
                   handling, cancelled, consumeErr, main>>

\* lines 73-80: the error is logged; the goroutine returns when ctx is
\* cancelled, otherwise Consume is called again and the new session's claims
\* start at the committed offsets
LoopCheck ==
    /\ loop = "returned"
    /\ IF cancelled
       THEN loop' = "exited" /\ UNCHANGED pos
       ELSE loop' = "consume" /\ pos' = committed
    /\ UNCHANGED <<store, clock, serveVars, log, marked, committed, saved, seen, acked,
                   handling, cancelled, consumeErr, main>>

\* lines 86-89: a signal arrives, main calls cancel()
Signal ==
    /\ main = "waitSignal"
    /\ cancelled' = TRUE
    /\ main' = "waitGroup"
    /\ UNCHANGED <<store, clock, serveVars, log, pos, marked, committed, saved, seen,
                   acked, handling, loop, consumeErr>>

\* faulty variant: the consumer is closed without waiting for the goroutine
ShutdownNoWait ==
    /\ main = "waitGroup"
    /\ main' = "closed"
    /\ UNCHANGED <<store, clock, serveVars, log, pos, marked, committed, saved, seen,
                   acked, handling, cancelled, loop, consumeErr>>

\* lines 90-92: wg.Wait() returns once the goroutine has returned, then
\* consumer.Close() and main returns
Shutdown ==
    /\ main = "waitGroup"
    /\ loop = "exited"
    /\ main' = "closed"
    /\ UNCHANGED <<store, clock, serveVars, log, pos, marked, committed, saved, seen,
                   acked, handling, cancelled, loop, consumeErr>>

\* the process is killed, or has shut down, and is started again: marks not
\* yet committed and the message in hand are gone, the claims start at the
\* committed offsets
Restart ==
    /\ marked' = committed
    /\ pos' = committed
    /\ handling' = [p \in Partitions |-> Idle]
    /\ cancelled' = FALSE
    /\ loop' = "consume"
    /\ consumeErr' = FALSE
    /\ main' = "waitSignal"
    /\ <<marked', pos', handling', cancelled', loop', main'>>
           # <<marked, pos, handling, cancelled, loop, main>>
    /\ UNCHANGED <<store, clock, serveVars, log, committed, saved, seen, acked>>

----------------------------------------------------------------------------
(* Specifications *)

Init ==
    /\ store = [c \in CityNames |-> NoRow]
    /\ clock = 0
    /\ cache = [k \in CacheKeys |-> NoEntry]
    /\ now = 0
    /\ req = [r \in Reqs |-> NewReq]
    /\ resp = NoResp
    /\ doneStamp = [c \in {ToLower(x) : x \in PathCities} |-> 0]
    /\ scn = [c \in {ToLower(x) : x \in PathCities} |-> NoScn]
    /\ log = [p \in Partitions |-> <<>>]
    /\ pos = [p \in Partitions |-> 0]
    /\ marked = [p \in Partitions |-> 0]
    /\ committed = [p \in Partitions |-> 0]
    /\ saved = [p \in Partitions |-> {}]
    /\ seen = [p \in Partitions |-> [k \in 0 .. (MaxLog - 1) |-> 0]]
    /\ acked = [p \in Partitions |-> {}]
    /\ handling = [p \in Partitions |-> Idle]
    /\ cancelled = FALSE
    /\ loop = "consume"
    /\ consumeErr = FALSE
    /\ main = "waitSignal"

ServeNext ==
    \/ \E r \in Reqs, c \in PathCities : GetWeather(r, c)
    \/ \E r \in Reqs : GetWeatherStore(r)
    \/ \E r \in Reqs : GetWeatherPopulate(r)
    \/ \E r \in Reqs, c \in PathCities, b \in Bodies : UpdateWeather(r, c, b)
    \/ \E r \in Reqs : UpdateDeleteCity(r)
    \/ \E r \in Reqs : UpdateDeleteAll(r)
    \/ \E r \in Reqs : GetAllCities(r)
    \/ \E r \in Reqs : GetAllCitiesStore(r)
    \/ \E r \in Reqs : GetAllCitiesPopulate(r)
    \/ Tick

\* one consumer holding the claim on one partition
IngestNext ==
    \/ \E p \in OnePartition, b \in Payloads : Publish(p, b)
    \/ \E p \in OnePartition : ConsumeClaim(p)
    \/ \E p \in OnePartition : ConsumeClaimSave(p)
    \/ \E p \in OnePartition : AutoCommit(p)
    \/ \E err \in BOOLEAN : ConsumeReturns(err)
    \/ LoopCheck
    \/ Signal
    \/ Shutdown
    \/ Restart

\* readings of one city published to both partitions, each partition's claim
\* consumed by its own ConsumeClaim goroutine
CrossNext ==
    \/ \E p \in Partitions, b \in ParisPayloads : Publish(p, b)
    \/ \E p \in Partitions : ConsumeClaim(p)
    \/ \E p \in Partitions : ConsumeClaimSave(p)

\* health probes arriving while one client writes and reads
HealthNext ==
    \/ \E dbOk \in BOOLEAN, redisOk \in BOOLEAN : HealthCheck(dbOk, redisOk)
    \/ \E r \in {1}, c \in PathCities : GetWeather(r, c)
    \/ \E r \in {1} : GetWeatherStore(r)
    \/ \E r \in {1} : GetWeatherPopulate(r)
    \/ \E r \in {1}, c \in PathCities, b \in Bodies : UpdateWeather(r, c, b)
    \/ \E r \in {1} : UpdateDeleteCity(r)
    \/ \E r \in {1} : UpdateDeleteAll(r)
    \/ Tick

\* the consumer ingesting readings of a city while one client reads, lists
\* and writes it
MixedNext ==
    \/ \E p \in OnePartition, b \in LowerCasePayloads : Publish(p, b)
    \/ \E p \in OnePartition : ConsumeClaim(p)
    \/ \E p \in OnePartition : ConsumeClaimSave(p)
    \/ \E r \in {1}, c \in PathCities : GetWeather(r, c)
    \/ \E r \in {1} : GetWeatherStore(r)
    \/ \E r \in {1} : GetWeatherPopulate(r)
    \/ \E r \in {1}, c \in PathCities, b \in Bodies : UpdateWeather(r, c, b)
    \/ \E r \in {1} : UpdateDeleteCity(r)
    \/ \E r \in {1} : UpdateDeleteAll(r)
    \/ \E r \in {1} : GetAllCities(r)
    \/ \E r \in {1} : GetAllCitiesStore(r)
    \/ \E r \in {1} : GetAllCitiesPopulate(r)
    \/ Tick

ServeSpec == Init /\ [][ServeNext]_vars
IngestSpec == Init /\ [][IngestNext]_vars
CrossSpec == Init /\ [][CrossNext]_vars
HealthSpec == Init /\ [][HealthNext]_vars
MixedSpec == Init /\ [][MixedNext]_vars

----------------------------------------------------------------------------
(* Ingestion claims, checked under IngestSpec *)

WellFormed(p, k) == ValidJSON(MessageAt(p, k))
Delivered(p, k) == seen[p][k] > 0

\* C1: a well-formed message whose Save failed and that no later delivery
\* has saved keeps the partition's committed offset at or below its own
\* offset, whatever followed it in the claim, so that a restart or a new
\* claim delivers it again.
C1_RedeliveryOnStoreFailure ==
    \A p \in Partitions : \A k \in Offsets(p) :
        (WellFormed(p, k) /\ Delivered(p, k) /\ k \notin saved[p]) => committed[p] <= k

\* C2: a message that is not valid JSON and that ConsumeClaim has received is
\* acknowledged (the session's offset is past it), and it is delivered once only.
C2_DropOnParseFailure ==
    \A p \in Partitions : \A k \in Offsets(p) :
        (~ WellFormed(p, k) /\ Delivered(p, k)) => (marked[p] > k /\ seen[p][k] = 1)

\* C4: a message is saved or acknowledged only when every well-formed message
\* before it in the partition has been saved.
C4_InPartitionOrdering ==
    \A p \in Partitions : \A n \in saved[p] \cup acked[p] : \A m \in 0 .. (n - 1) :
        WellFormed(p, m) => m \in saved[p]

\* C5: once a partition is consumed to its end and the offset committed there,
\* so that no message of it is ever delivered again, every well-formed message
\* of it has been written by a successful Save.
C5_AtLeastOnce ==
    \A p \in Partitions :
        (pos[p] = Len(log[p]) /\ committed[p] = Len(log[p]))
            => \A k \in Offsets(p) : WellFormed(p, k) => k \in saved[p]

----------------------------------------------------------------------------
(* Serving claims, checked under ServeSpec *)

\* C3: a GetWeather that starts after an UpdateWeather for its city has
\* answered 200 (its invalidations carried out) returns a record written by
\* that update or a later one.
C3_ReadAfterWrite ==
    (resp.kind = "get" /\ resp.status = 200) => resp.body.timestamp >= resp.floor

\* C6: with no other request on the city's key in flight and no failing call,
\* the first GetWeather after an UpdateWeather that answered 200 returns the
\* written values with cached=false, and the next one, the entry not yet
\* expired, returns them with cached=true.
C6_WriteThenReadTwice ==
    (resp.kind = "get" /\ Undisturbed(resp)) =>
        /\ resp.was.phase = "written" =>
              resp.status = 200 /\ ~ resp.cached /\ Values(resp.body) = resp.was.want
        /\ resp.was.phase = "read1" =>
              resp.status = 200 /\ resp.cached /\ Values(resp.body) = resp.was.want

C6_SecondReadServedFromCache ==
    /\ resp.kind = "get" /\ Undisturbed(resp)
    /\ resp.was.phase = "read1" /\ resp.cached /\ resp.status = 200

\* C7 as claimed: when UpdateWeather answers 200 and no reader ran beside it,
\* neither the city's key nor the listing's key holds an entry.
C7_BothKeysInvalidated ==
    (resp.kind = "update" /\ resp.status = 200 /\ "reader" \notin resp.overlap)
        => resp.left = {}

DeleteOf(key) == IF key = AllCitiesKey THEN "cache.Delete:all" ELSE "cache.Delete:city"

\* C7 as amended: when UpdateWeather answers 200 it has issued a Delete for
\* the city's key and for the listing's key, and, no reader having run beside
\* it, a key still holds an entry only if its Delete returned an error.
C7_InvalidationIssued ==
    (resp.kind = "update" /\ resp.status = 200) =>
        /\ {"cache.Delete:city", "cache.Delete:all"} \subseteq resp.ops
        /\ "reader" \notin resp.overlap =>
              \A k \in resp.left : DeleteOf(k) \in resp.failed

C7_OneDeleteFailed ==
    /\ resp.kind = "update" /\ resp.status = 200 /\ "reader" \notin resp.overlap
    /\ resp.failed = {"cache.Delete:all"} /\ resp.left = {AllCitiesKey}

\* C8: when Save fails inside UpdateWeather the answer is a 5xx, no cache call
\* is issued and the step leaves every cache key as it was.
C8_SaveFailureKeepsCache ==
    [][(resp'.kind = "update" /\ "store.Save" \in resp'.failed) =>
          /\ resp'.status >= 500 /\ resp'.status <= 599
          /\ resp'.ops = {"store.Save"}
          /\ cache' = cache]_vars

C8_SaveFailedWithEntryCached ==
    /\ resp.kind = "update" /\ "store.Save" \in resp.failed
    /\ cache[CityKey(resp.city)] # NoEntry

\* C9: a GetWeather for a city with no row answers 404 with a non-empty
\* message, has issued no cache Set and no Save, and leaves no entry under
\* the city's key.
C9_NoNegativeCaching ==
    (resp.kind = "get" /\ ~ resp.hasRow) =>
        /\ resp.status = 404 /\ resp.msg # ""
        /\ resp.ops \cap {"cache.Set", "store.Save"} = {}
        /\ resp.left = {}

C9_UnknownCityAnswered ==
    /\ resp.kind = "get" /\ ~ resp.hasRow /\ resp.status = 404
    /\ "store.GetByCity" \in resp.ops /\ resp.failed = {}

\* C10: GetWeather answers 404 only when the store holds no row for the city.
C10_NotFoundOnlyWhenAbsent ==
    (resp.kind = "get" /\ resp.status = 404) => ~ resp.hasRow

----------------------------------------------------------------------------
(* Cache failures, spec 4.2 *)

CacheOps == {"cache.Get", "cache.Set", "cache.Delete:city", "cache.Delete:all"}

\* what the client sees of a response
Visible(rp) == <<rp.status, rp.msg, rp.cached, rp.body, rp.list, rp.total>>

\* what the same request answers when its cache Get reports a miss and its
\* Set and Delete succeed, given what its store calls returned
MissAnswer(rp) ==
    CASE rp.kind = "get" ->
           IF "store.GetByCity" \in rp.failed THEN <<404, "query failed", FALSE, NoData, <<>>, 0>>
           ELSE IF rp.data = NoData THEN <<404, "city not found", FALSE, NoData, <<>>, 0>>
           ELSE <<200, "", FALSE, rp.data, <<>>, 0>>
      [] rp.kind = "all" ->
           IF "store.GetAllCities" \in rp.failed THEN <<500, "", FALSE, NoData, <<>>, 0>>
           ELSE <<200, "", FALSE, NoData, rp.cities, Len(rp.cities)>>
      [] rp.kind = "update" ->
           IF "store.Save" \in rp.failed THEN <<500, "save failed", FALSE, NoData, <<>>, 0>>
           ELSE <<200, "ok", FALSE, NoData, <<>>, 0>>
      [] OTHER -> Visible(rp)

\* C11: a response whose request saw a cache call fail has the status and
\* body of the same request on the miss path with working Set and Delete, and
\* a failed cache Get is always followed by a read of the store.
C11_CacheFailuresNotSurfaced ==
    (resp.failed \cap CacheOps # {}) =>
        /\ Visible(resp) = MissAnswer(resp)
        /\ "cache.Get" \in resp.failed =>
              /\ resp.reads = 1
              /\ resp.ops \cap {"store.GetByCity", "store.GetAllCities"} # {}

C11_AnsweredDespiteCacheErrors ==
    /\ resp.kind = "get" /\ resp.status = 200
    /\ {"cache.Get", "cache.Set"} \subseteq resp.failed

----------------------------------------------------------------------------
(* The stored row *)

\* C12: the stored row of every city has the temperature, condition and
\* provider of one single Save, never fields of two different writes.
C12_FullFieldReplacement ==
    \A c \in CityNames :
        store[c] # NoRow =>
            \E p \in Partitions : \E k \in saved[p] :
                /\ Unmarshal(MessageAt(p, k)).city = c
                /\ Values(store[c]) = Values(Unmarshal(MessageAt(p, k)))

\* C13: the store holds at most one row per city name up to letter case, and
\* every city saved from the stream is found by the lookup GetWeather makes,
\* under the lower-cased name.
C13_OneRecordPerNormalizedCity ==
    /\ \A c1 \in CityNames : \A c2 \in CityNames :
          (c1 # c2 /\ ToLower(c1) = ToLower(c2)) =>
              (store[c1] = NoRow \/ store[c2] = NoRow)
    /\ \A p \in Partitions : \A k \in saved[p] :
          GetByCity(store, ToLower(Unmarshal(MessageAt(p, k)).city)) # NoData

\* the well-formed readings of the stream
Readings == {Unmarshal(b) : b \in {x \in Payloads : ValidJSON(x)}}

\* the table after the same record is saved twice in a row
SavedTwiceApi(d) == SaveRow(SaveRow(store, d, clock + 1), d, clock + 2)
SavedTwiceAggregator(d) ==
    SaveRowAggregator(SaveRowAggregator(store, d, clock + 1), d, clock + 2)

\* the city's row has the record's fields and every other row is as it was
OneRowOf(st, d) ==
    /\ st[d.city] # NoRow
    /\ Values(st[d.city]) = Values(d)
    /\ \A c \in CityNames \ {d.city} : st[c] = store[c]

\* C14: saving the same record twice in a row, with the API's Save or with the
\* aggregator's, leaves one row for the city with the temperature, condition
\* and provider of the second application.
C14_IdempotentUpsert ==
    \A d \in Readings :
        OneRowOf(SavedTwiceApi(d), d) /\ OneRowOf(SavedTwiceAggregator(d), d)

----------------------------------------------------------------------------
(* Miss then populate *)

\* a GetWeather answered from the store after a miss, every call succeeding
MissPopulated(rp) ==
    rp.kind = "get" /\ rp.status = 200 /\ ~ rp.cached /\ rp.failed = {}

\* the steps that write or remove cache keys: Set and Delete of a request
CacheWriteStep ==
    \E r \in Reqs : /\ req'[r] # req[r]
                     /\ req[r].pc \in {"cacheSet", "allSet", "delCity", "delAll"}

\* C15: a GetWeather that misses the cache for an existing city reads the
\* store exactly once, returns the row it read and leaves under the city's
\* key an entry equal to it that expires one TTL later; an entry is returned
\* by cache Get as long as its TTL has not elapsed and no request rewrites or
\* deletes it, and is gone from the moment the TTL has elapsed.
C15_MissThenPopulate ==
    /\ [](MissPopulated(resp) =>
            /\ resp.reads = 1
            /\ resp.body = resp.data
            /\ resp.overlap = {} => resp.body = GetByCity(store, resp.city)
            /\ CacheGet(cache, CityKey(resp.city)) = resp.body
            /\ cache[CityKey(resp.city)].exp = now + TTLTicks)
    /\ [](\A k \in CacheKeys : cache[k] # NoEntry => now < cache[k].exp)
    /\ [][\A k \in CacheKeys :
            cache[k] # NoEntry =>
                \/ cache'[k] = cache[k] /\ now' < cache[k].exp
                \/ cache'[k] = NoEntry /\ now' >= cache[k].exp
                \/ CacheWriteStep]_vars

C15_PopulatedAfterMiss ==
    /\ MissPopulated(resp) /\ resp.overlap = {}
    /\ cache[CityKey(resp.city)] # NoEntry

----------------------------------------------------------------------------
(* Aggregate listing *)

\* C16: a GetAllCities answered from the aggregate entry returns the ordered
\* listing, and its length as total, of the store content whose listing
\* populated the entry, the empty store included.
C16_ListingRoundTrip ==
    (resp.kind = "all" /\ resp.cached) =>
        \E S \in SUBSET CityNames :
            /\ CacheGet(cache, AllCitiesKey).city = Join(SortedSeq(S))
            /\ resp.list = SortedSeq(S)
            /\ resp.total = Cardinality(S)

----------------------------------------------------------------------------
(* Readings of one city on two partitions, checked under CrossSpec *)

\* a reading of this city has been saved from a partition other than p
SavedElsewhere(p, city) ==
    \E q \in Partitions \ {p} : \E k \in saved[q] : Unmarshal(MessageAt(q, k)).city = city

\* C17: when a Save from one partition succeeds for a city that a Save from
\* another partition has written, the stored row afterwards has the
\* temperature, condition and provider of the reading just saved, whatever
\* the two readings' timestamps.
C17_LastArrivalWins ==
    [][\A p \in Partitions :
          (handling[p] # Idle /\ handling'[p] = Idle /\ clock' # clock) =>
              LET d == Unmarshal(MessageAt(p, handling[p]))
              IN SavedElsewhere(p, d.city) => Values(store'[d.city]) = Values(d)]_vars

----------------------------------------------------------------------------
(* The consume loop and the shutdown, checked under IngestSpec *)

\* the step in which a new process starts: only Restart resets the context
ProcessStarts == cancelled /\ ~ cancelled'

\* C18: the consume goroutine, once it has seen the cancellation at its
\* check, returns and calls Consume no more in this process; main closes the
\* consumer only after the goroutine has returned, and then no delivered
\* message is still in ConsumeClaim's hands: each one was passed to
\* MarkMessage or left unmarked.
C18_GracefulShutdown ==
    /\ [](main = "closed" =>
            /\ loop = "exited"
            /\ \A p \in Partitions : \A k \in Offsets(p) :
                  Delivered(p, k) => handling[p] # k)
    /\ [][(loop = "returned" /\ cancelled /\ loop' # loop /\ ~ ProcessStarts)
              => loop' = "exited"]_vars
    /\ [][(loop = "exited" /\ ~ ProcessStarts) => loop' = "exited"]_vars

C18_ClosedAfterDeliveries ==
    /\ main = "closed"
    /\ \E k \in Offsets(0) : Delivered(0, k) /\ k \in acked[0]
    /\ \E k \in Offsets(0) : Delivered(0, k) /\ k \notin acked[0]

\* C19: when Consume has returned, with an error or without, and the loop
\* finds ctx not cancelled at its check, it calls Consume again; the
\* goroutine has returned only if ctx was cancelled.
C19_LoopResilience ==
    /\ [][(loop = "returned" /\ ~ cancelled /\ loop' # loop) => loop' = "consume"]_vars
    /\ [](loop = "exited" => cancelled)

C19_ConsumeAgainAfterError ==
    loop = "consume" /\ consumeErr /\ ~ cancelled /\ main = "waitSignal"

----------------------------------------------------------------------------
(* Health endpoint, checked under HealthSpec *)

\* C20: HealthCheck answers 503 exactly when Ping or the Exists probe returned
\* an error and 200 otherwise; its only calls are Ping and Exists on a key that
\* is no weather key, and it leaves the table and the cache as they were.
C20_HealthEndpoint ==
    /\ [](resp.kind = "health" =>
            /\ resp.status = 503 <=> resp.failed \cap {"store.Ping", "cache.Exists"} # {}
            /\ resp.status = 200 <=> resp.failed = {}
            /\ resp.ops = {"store.Ping", "cache.Exists"}
            /\ resp.reads = 0
            /\ HealthKey \notin CacheKeys)
    /\ [][resp'.kind = "health" => (store' = store /\ cache' = cache)]_vars

C20_DegradedByCacheOnly ==
    /\ resp.kind = "health" /\ resp.status = 503 /\ resp.failed = {"cache.Exists"}
    /\ \E c \in CityNames : store[c] # NoRow
    /\ \E k \in CacheKeys : cache[k] # NoEntry

----------------------------------------------------------------------------
(* Ingestion and the cache, checked under MixedSpec *)

\* a step of the consumer: a message received, or its Save finished
IngestStep == pos' # pos \/ handling' # handling

\* C21: no step of ConsumeClaim changes a cache key; an entry stays as it is
\* until its TTL has elapsed or a request's Set or Delete rewrites it, and a
\* GetWeather or GetAllCities that finds it answers from it with cached=true
\* and without reading the store, whatever has been ingested meanwhile.
C21_IngestionLeavesCache ==
    /\ [][IngestStep => cache' = cache]_vars
    /\ [][\A k \in CacheKeys :
            cache[k] # NoEntry =>
                \/ cache'[k] = cache[k] /\ now' < cache[k].exp
                \/ cache'[k] = NoEntry /\ now' >= cache[k].exp
                \/ CacheWriteStep]_vars
    /\ [][(resp'.kind = "get" /\ resp'.cached) =>
              /\ cache[CityKey(resp'.city)] # NoEntry
              /\ resp'.status = 200 /\ resp'.reads = 0
              /\ resp'.body = CacheGet(cache, CityKey(resp'.city))]_vars
    /\ [][(resp'.kind = "all" /\ resp'.cached) =>
              /\ cache[AllCitiesKey] # NoEntry
              /\ resp'.status = 200 /\ resp'.reads = 0
              /\ resp'.list = Split(CacheGet(cache, AllCitiesKey).city)]_vars

C21_StaleEntryServedAfterIngest ==
    /\ resp.kind = "get" /\ resp.cached
    /\ resp.rowStamp > resp.body.timestamp
    /\ store[resp.city].temp = 7 /\ resp.body.temp # 7

----------------------------------------------------------------------------
(* Cache provenance, checked under ServeSpec *)

\* the cities whose key a request can address
KeyCities == {ToLower(c) : c \in PathCities}

\* a GetWeather that is about to populate the cache
Populating(r, c) ==
    /\ req[r].kind = "get" /\ req[r].pc = "cacheSet" /\ req[r].city = c
    /\ "store.GetByCity" \in req[r].ops \ req[r].failed

\* C22: an entry under a city's key carries that city's name, the city has a
\* row, and the entry is no newer than the row; a value appears under the key
\* only by the Set of a GetWeather whose store read succeeded, and it is the
\* record that read returned, which was the city's row when it was read.
C22_CacheProvenance ==
    /\ [](\A c \in KeyCities :
            CacheGet(cache, CityKey(c)) # NoData =>
                /\ CacheGet(cache, CityKey(c)).city = c
                /\ store[c] # NoRow
                /\ CacheGet(cache, CityKey(c)).timestamp <= store[c].updated_at)
    /\ [][\A c \in KeyCities :
            cache'[CityKey(c)] \notin {cache[CityKey(c)], NoEntry} =>
                \E r \in Reqs : /\ Populating(r, c)
                                 /\ req'[r] = NewReq
                                 /\ CacheGet(cache', CityKey(c)) = req[r].data]_vars
    /\ [][\A r \in Reqs :
            req'[r].pc = "cacheSet" =>
                IF req[r].pc = "cacheSet"
                THEN req'[r].data = req[r].data
                ELSE /\ req'[r].data # NoData
                     /\ req'[r].data = GetByCity(store, req'[r].city)]_vars

C22_EntryOfAnEarlierRecord ==
    \E c \in KeyCities :
        /\ CacheGet(cache, CityKey(c)) # NoData
        /\ CacheGet(cache, CityKey(c)).timestamp < store[c].updated_at

----------------------------------------------------------------------------
(* Acknowledgement, checked under IngestSpec *)

\* C23: every message passed to MarkMessage has been written by a successful
\* Save; the session's offset rises only in the step in which the Save of the
\* message in hand succeeds, to that message's offset plus one; and no step,
\* commit, new session or restart, lowers a partition's committed offset.
C23_AckImpliesWrite ==
    /\ [](\A p \in Partitions : acked[p] \subseteq saved[p])
    /\ [][\A p \in Partitions :
            marked'[p] > marked[p] =>
                /\ handling[p] # Idle /\ handling'[p] = Idle
                /\ clock' = clock + 1
                /\ handling[p] \in saved'[p]
                /\ marked'[p] = handling[p] + 1]_vars
    /\ [][\A p \in Partitions : committed'[p] >= committed[p]]_vars

C23_CommittedAfterFailureAndRestart ==
    /\ committed[0] >= 1
    /\ \E k \in Offsets(0) : seen[0][k] >= 2
    /\ \E k \in Offsets(0) : WellFormed(0, k) /\ Delivered(0, k) /\ k \notin saved[0]

----------------------------------------------------------------------------
(* Rejected write, checked under ServeSpec *)

\* an UpdateWeather response whose request decoded no record from its body
Undecoded(rp) == rp.kind = "update" /\ rp.data = NoData

\* C24: an UpdateWeather answers 400 exactly when its body does not decode,
\* and then it has called neither the store nor the cache and its step leaves
\* the table and every cache key as they were.
C24_RejectedWriteChangesNothing ==
    /\ [](resp.kind = "update" => (Undecoded(resp) <=> resp.status = 400))
    /\ [][Undecoded(resp') =>
              /\ resp'.status = 400
              /\ resp'.ops = {}
              /\ store' = store /\ clock' = clock
              /\ cache' = cache]_vars

C24_RejectedWithRowAndEntries ==
    /\ Undecoded(resp) /\ resp.status = 400
    /\ resp.hasRow
    /\ \A k \in CacheKeys : cache[k] # NoEntry

====
